---- MODULE Spec2Model ----
(***************************************************************************)
(* Model of the DDL catalog loader of yo (loaders/parser.go):              *)
(* NewSpannerLoaderFromDDL builds a map from table name to tableOrView in  *)
(* one pass over the parsed DDL statements; TableList, ColumnList,         *)
(* IndexList and IndexColumnList read the built map.                       *)
(*                                                                         *)
(* A Go pointer is a sequence of length at most one: <<>> is nil, <<x>> a  *)
(* pointer to x.  A Go call's outcome is a record [status, value, err]:    *)
(* status "ok" (value, nil), "error" (nil, err) or "panic" (a nil pointer  *)
(* dereference or a failed type assertion ended the call).                 *)
(***************************************************************************)
EXTENDS Integers, Sequences, FiniteSets, TLC

(* ---------------------------------------------------------------- bounds *)

\* Largest number of statements ParseDDLs hands to the build loop.
MaxStmts == 3

(* ------------------------------------------------------------ pointers  *)

Nil == <<>>
Ptr(x) == <<x>>
Deref(p) == p[1]

(* ------------------------------------------------- the parsed DDL input *)

TableNames == {"A", "B"}

\* A column of a create-table: ast.ColumnDef as far as ColumnList reads it.
ColumnDef(name, type, notNull, generated) ==
  [Name |-> name, Type |-> type, NotNull |-> notNull, GeneratedExpr |-> generated]

ColumnDefs ==
  << ColumnDef("a", "INT64", TRUE, Nil),
     ColumnDef("b", "STRING(MAX)", FALSE, Nil),
     ColumnDef("c", "INT64", FALSE, Ptr("a + 1")) >>

PrimaryKeyLists == { <<"a">>, <<"b", "a">> }

CreateTableStmts ==
  { [kind |-> "CreateTable", Name |-> t, Columns |-> ColumnDefs, PrimaryKeys |-> pk]
      : t \in TableNames, pk \in PrimaryKeyLists }

\* Index definitions: two share the name "I" and differ in their columns.
IndexDefs ==
  { [Name |-> "I", Unique |-> FALSE, Storing |-> Ptr([Columns |-> <<"s1", "s2">>]),
     Keys |-> <<"k1", "k2">>],
    [Name |-> "I", Unique |-> TRUE, Storing |-> Nil, Keys |-> <<"k2">>],
    [Name |-> "J", Unique |-> TRUE, Storing |-> Ptr([Columns |-> <<"s2">>]),
     Keys |-> <<"k2", "k1">>] }

CreateIndexStmts ==
  { [kind |-> "CreateIndex", Name |-> d.Name, TableName |-> t, Unique |-> d.Unique,
     Storing |-> d.Storing, Keys |-> d.Keys] : t \in TableNames, d \in IndexDefs }

Alterations == {"AddTableConstraint", "AddColumn"}

AlterTableStmts ==
  { [kind |-> "AlterTable", Name |-> "A", TableAlteration |-> a] : a \in Alterations }

\* The query of a create-view: its Go type and, for a Select, the type of
\* From.Source with the table names it mentions.
Queries ==
  { [type |-> "Select", source |-> "TableName", tables |-> <<"A">>],
    [type |-> "Select", source |-> "TableName", tables |-> <<"B">>],
    [type |-> "Select", source |-> "Join", tables |-> <<"A", "B">>],
    [type |-> "Select", source |-> "SubQueryTableExpr", tables |-> <<"A">>],
    [type |-> "CompoundQuery", source |-> "", tables |-> <<"A", "B">>] }

CreateViewStmts ==
  { [kind |-> "CreateView", Name |-> v, Query |-> q] : v \in TableNames, q \in Queries }

\* DDL statements that the parser produces and the switch has no case for.
OtherStmts == { [kind |-> "DropTable", Name |-> "A"] }

(* ------------------------------------------------- the catalog's values *)

ZeroTableOrView == [createTable |-> Nil, createIndexes |-> <<>>, createView |-> Nil]

\* v, ok := m[k] and v := m[k] of a Go map: the zero value when k is absent.
MapHas(m, k) == k \in DOMAIN m
MapGet(m, k) == IF k \in DOMAIN m THEN m[k] ELSE ZeroTableOrView
MapPut(m, k, v) == [x \in (DOMAIN m) \cup {k} |-> IF x = k THEN v ELSE m[x]]

EmptyMap == [x \in {} |-> ZeroTableOrView]

Ok(v) == [status |-> "ok", value |-> v, err |-> ""]
Error(e) == [status |-> "error", value |-> <<>>, err |-> e]
Panic == [status |-> "panic", value |-> <<>>, err |-> ""]
NoResult == [status |-> "none", value |-> <<>>, err |-> ""]

NoCall == [op |-> "none", table |-> "", index |-> ""]

ErrUndefinedTable == "table is undefined"
ErrUnsupportedStmt == "stmt should be CreateTable, CreateIndex or AlterTableAddConstraint"
ErrViewJoin == "view with join is not supported"
ErrUnknownSource == "unknown source type"
ErrParse == "parse error"
ErrReadFile == "read error"

VARIABLE pc      \* "start", "loop" (inside the for loop), "built", "failed"
VARIABLE n       \* number of statements the loop has consumed
VARIABLE ddl     \* the loop variable: pointer to the statement consumed last
VARIABLE tables  \* the local map tables of NewSpannerLoaderFromDDL
VARIABLE loader  \* the returned *SpannerLoaderFromDDL (Nil until returned)
VARIABLE err     \* the returned error ("" is nil)
VARIABLE call    \* the accessor call made last on the loader
VARIABLE result  \* its outcome

vars == <<pc, n, ddl, tables, loader, err, call, result>>

Init ==
  /\ pc = "start"
  /\ n = 0
  /\ ddl = Nil
  /\ tables = EmptyMap
  /\ loader = Nil
  /\ err = ""
  /\ call = NoCall
  /\ result = NoResult

(* ------------------------------------------- NewSpannerLoaderFromDDL    *)

Fail(e) ==
  /\ pc' = "failed"
  /\ err' = e
  /\ loader' = Nil
  /\ UNCHANGED tables

Continue(newTables) ==
  /\ pc' = "loop"
  /\ tables' = newTables
  /\ UNCHANGED <<loader, err>>

ReadFileError ==
  /\ pc = "start"
  /\ pc' = "failed"
  /\ err' = ErrReadFile
  /\ UNCHANGED <<n, ddl, tables, loader, call, result>>

ParseDDLsError ==
  /\ pc = "start"
  /\ pc' = "failed"
  /\ err' = ErrParse
  /\ UNCHANGED <<n, ddl, tables, loader, call, result>>

ParseDDLsOk ==
  /\ pc = "start"
  /\ pc' = "loop"
  /\ UNCHANGED <<n, ddl, tables, loader, err, call, result>>

CaseCreateTable(val) ==
  LET v == MapGet(tables, val.Name)
  IN Continue(MapPut(tables, val.Name, [v EXCEPT !.createTable = Ptr(val)]))

\* Variant: the index list is replaced by the new index instead of extended.
CaseCreateIndex_Replace(val) ==
  IF ~MapHas(tables, val.TableName)
  THEN Fail(ErrUndefinedTable)
  ELSE LET v == MapGet(tables, val.TableName)
       IN Continue(MapPut(tables, val.TableName, [v EXCEPT !.createIndexes = <<val>>]))

\* Variant: the ok of the map lookup is not tested.
CaseCreateIndex_NoCheck(val) ==
  LET v == MapGet(tables, val.TableName)
  IN Continue(MapPut(tables, val.TableName, [v EXCEPT !.createIndexes = Append(@, val)]))

CaseCreateIndex(val) ==
  IF ~MapHas(tables, val.TableName)
  THEN Fail(ErrUndefinedTable)
  ELSE LET v == MapGet(tables, val.TableName)
       IN Continue(MapPut(tables, val.TableName,
                          [v EXCEPT !.createIndexes = Append(@, val)]))

\* Variant: every alteration is skipped.
CaseAlterTable_SkipAll(val) == Continue(tables)

CaseAlterTable(val) ==
  IF val.TableAlteration = "AddTableConstraint"
  THEN Continue(tables)
  ELSE Fail(ErrUnsupportedStmt)

CaseCreateView(val) ==
  LET v == MapGet(tables, val.Name)
  IN Continue(MapPut(tables, val.Name, [v EXCEPT !.createView = Ptr(val)]))

\* The switch has no default: a statement of another type matches no case.
CaseNoMatch(val) == Continue(tables)

Iterate(stmt) ==
  /\ pc = "loop"
  /\ n < MaxStmts
  /\ n' = n + 1
  /\ ddl' = Ptr(stmt)
  /\ UNCHANGED <<call, result>>

LoopCreateTable == \E s \in CreateTableStmts : Iterate(s) /\ CaseCreateTable(s)
LoopCreateIndex == \E s \in CreateIndexStmts : Iterate(s) /\ CaseCreateIndex(s)
LoopAlterTable == \E s \in AlterTableStmts : Iterate(s) /\ CaseAlterTable(s)
LoopCreateView == \E s \in CreateViewStmts : Iterate(s) /\ CaseCreateView(s)
LoopNoMatch == \E s \in OtherStmts : Iterate(s) /\ CaseNoMatch(s)

\* The statement list is exhausted: return the loader.
Return ==
  /\ pc = "loop"
  /\ pc' = "built"
  /\ loader' = Ptr([tables |-> tables])
  /\ err' = ""
  /\ UNCHANGED <<n, ddl, tables, call, result>>

(* ------------------------------------------ rendering and re-parsing    *)

\* ast.CreateView.SQL(): the statement's text, as a sequence of tokens.
SelectFrom == <<"SELECT", "*", "FROM">>

QuerySQL(q) ==
  IF q.type = "CompoundQuery"
  THEN SelectFrom \o <<q.tables[1], "UNION", "ALL">> \o SelectFrom \o <<q.tables[2]>>
  ELSE CASE q.source = "TableName" -> SelectFrom \o <<q.tables[1]>>
         [] q.source = "Join" -> SelectFrom \o <<q.tables[1], "CROSS", "JOIN", q.tables[2]>>
         [] q.source = "SubQueryTableExpr" ->
              SelectFrom \o <<"(">> \o SelectFrom \o <<q.tables[1], ")">>

SQL(view) ==
  <<"CREATE", "VIEW", view.Name, "SQL", "SECURITY", "INVOKER", "AS">> \o QuerySQL(view.Query)

Keywords ==
  {"CREATE", "VIEW", "SQL", "SECURITY", "INVOKER", "AS", "SELECT", "*", "FROM",
   "UNION", "ALL", "CROSS", "JOIN", "(", ")"}

IsIdent(tok) == tok \notin Keywords
IsPrefix(p, s) == Len(p) <= Len(s) /\ SubSeq(s, 1, Len(p)) = p
Drop(s, k) == SubSeq(s, k + 1, Len(s))

ParseFailed == [ok |-> FALSE, type |-> "", source |-> "", tables |-> <<>>]
Parsed(type, source, tbls) == [ok |-> TRUE, type |-> type, source |-> source, tables |-> tbls]

\* The table expression after FROM.
ParseTableExpr(toks) ==
  CASE Len(toks) = 1 /\ IsIdent(toks[1]) ->
         Parsed("Select", "TableName", <<toks[1]>>)
    [] Len(toks) = 4 /\ IsIdent(toks[1]) /\ toks[2] = "CROSS" /\ toks[3] = "JOIN"
         /\ IsIdent(toks[4]) ->
         Parsed("Select", "Join", <<toks[1], toks[4]>>)
    [] Len(toks) = 6 /\ toks[1] = "(" /\ toks[6] = ")"
         /\ IsPrefix(SelectFrom, Drop(toks, 1)) /\ IsIdent(toks[5]) ->
         Parsed("Select", "SubQueryTableExpr", <<toks[5]>>)
    [] OTHER -> ParseFailed

ParseSelect(toks) ==
  IF IsPrefix(SelectFrom, toks) THEN ParseTableExpr(Drop(toks, 3)) ELSE ParseFailed

\* A query expression: a Select, or two Selects joined by UNION ALL.
ParseQuery(toks) ==
  LET unions == {i \in 1..Len(toks) : toks[i] = "UNION"}
  IN IF unions = {}
     THEN ParseSelect(toks)
     ELSE LET i == CHOOSE j \in unions : \A k \in unions : j <= k
              l == ParseSelect(SubSeq(toks, 1, i - 1))
              r == IF i < Len(toks) /\ toks[i + 1] = "ALL"
                   THEN ParseSelect(Drop(toks, i + 1)) ELSE ParseFailed
          IN IF l.ok /\ r.ok
             THEN Parsed("CompoundQuery", "", l.tables \o r.tables)
             ELSE ParseFailed

\* parser.ParseDDL on the text of a create-view.
ParseDDL(toks) ==
  IF /\ Len(toks) > 7
     /\ toks[1] = "CREATE" /\ toks[2] = "VIEW" /\ IsIdent(toks[3])
     /\ SubSeq(toks, 4, 7) = <<"SQL", "SECURITY", "INVOKER", "AS">>
  THEN LET q == ParseQuery(Drop(toks, 7))
       IN [ok |-> q.ok, kind |-> "CreateView", Name |-> toks[3],
           Query |-> [type |-> q.type, source |-> q.source, tables |-> q.tables]]
  ELSE [ok |-> FALSE, kind |-> "", Name |-> "", Query |-> [type |-> "", source |-> "", tables |-> <<>>]]

\* Variant: a join yields its left table.
baseTablesForViewDDL_JoinLeft(ddlString) ==
  LET parsed == ParseDDL(ddlString)
  IN IF ~parsed.ok THEN Error(ErrParse)
     ELSE IF parsed.kind # "CreateView" \/ parsed.Query.type # "Select" THEN Panic
     ELSE CASE parsed.Query.source = "TableName" -> Ok(<<parsed.Query.tables[1]>>)
            [] parsed.Query.source = "Join" -> Ok(<<parsed.Query.tables[1]>>)
            [] OTHER -> Error(ErrUnknownSource)

baseTablesForViewDDL(ddlString) ==
  LET parsed == ParseDDL(ddlString)
  IN IF ~parsed.ok THEN Error(ErrParse)
     ELSE IF parsed.kind # "CreateView" \/ parsed.Query.type # "Select" THEN Panic
     ELSE CASE parsed.Query.source = "TableName" -> Ok(<<parsed.Query.tables[1]>>)
            [] parsed.Query.source = "Join" -> Error(ErrViewJoin)
            [] OTHER -> Error(ErrUnknownSource)

firstOrDefault(s) == IF Len(s) = 0 THEN "" ELSE s[1]

(* ------------------------------------------------------ the accessors   *)

\* TableList ranges over the Go map: order is the order this range visits
\* the keys in, which the language leaves unspecified.
RECURSIVE TableListLoop(_, _, _)
TableListLoop(m, order, acc) ==
  IF order = <<>> THEN Ok(acc)
  ELSE LET t == m[Head(order)]
       IN IF t.createTable = Nil THEN Panic
          ELSE TableListLoop(m, Tail(order),
                 Append(acc, [TableName |-> Deref(t.createTable).Name, ManualPk |-> TRUE]))

TableList(s, order) == TableListLoop(s.tables, order, <<>>)

ColumnList(s, name) ==
  LET table == MapGet(s.tables, name).createTable
  IN IF table = Nil THEN Panic
     ELSE LET t == Deref(table)
              check == {t.PrimaryKeys[i] : i \in DOMAIN t.PrimaryKeys}
          IN Ok([i \in DOMAIN t.Columns |->
                  [FieldOrdinal |-> i,
                   ColumnName |-> t.Columns[i].Name,
                   DataType |-> t.Columns[i].Type,
                   NotNull |-> t.Columns[i].NotNull,
                   IsPrimaryKey |-> t.Columns[i].Name \in check,
                   IsGenerated |-> t.Columns[i].GeneratedExpr # Nil]])

IndexList(s, name) ==
  LET ixs == MapGet(s.tables, name).createIndexes
  IN Ok([i \in DOMAIN ixs |-> [IndexName |-> ixs[i].Name, IsUnique |-> ixs[i].Unique]])

IndexColumn(seqNo, storing, name) ==
  [SeqNo |-> seqNo, Storing |-> storing, ColumnName |-> name]

StoringColumns(ix) ==
  IF ix.Storing # Nil
  THEN LET cs == Deref(ix.Storing).Columns
       IN [i \in DOMAIN cs |-> IndexColumn(0, TRUE, cs[i])]
  ELSE <<>>

KeyColumns(ix) == [i \in DOMAIN ix.Keys |-> IndexColumn(i, FALSE, ix.Keys[i])]

\* Variant: the loop has no break after the first match.
RECURSIVE IndexColumnLoop_NoBreak(_, _, _)
IndexColumnLoop_NoBreak(ixs, index, cols) ==
  IF ixs = <<>> THEN cols
  ELSE IF Head(ixs).Name # index THEN IndexColumnLoop_NoBreak(Tail(ixs), index, cols)
  ELSE IndexColumnLoop_NoBreak(Tail(ixs), index,
         cols \o StoringColumns(Head(ixs)) \o KeyColumns(Head(ixs)))

RECURSIVE IndexColumnLoop(_, _, _)
IndexColumnLoop(ixs, index, cols) ==
  IF ixs = <<>> THEN cols
  ELSE IF Head(ixs).Name # index THEN IndexColumnLoop(Tail(ixs), index, cols)
  ELSE cols \o StoringColumns(Head(ixs)) \o KeyColumns(Head(ixs))

PrimaryKeyLoop(tbl) ==
  IF tbl.createTable = Nil THEN Panic
  ELSE LET pks == Deref(tbl.createTable).PrimaryKeys
       IN Ok([i \in DOMAIN pks |-> IndexColumn(i, FALSE, pks[i])])

\* Variant: a view is not redirected to its source table.
primaryKeyColumnList_NoRedirect(s, table) ==
  IF ~MapHas(s.tables, table) THEN Ok(<<>>)
  ELSE LET tbl == s.tables[table]
       IN IF tbl.createView # Nil
          THEN LET sourceTable == baseTablesForViewDDL(SQL(Deref(tbl.createView)))
               IN IF sourceTable.status # "ok" THEN sourceTable
                  ELSE PrimaryKeyLoop(tbl)
          ELSE PrimaryKeyLoop(tbl)

primaryKeyColumnList(s, table) ==
  IF ~MapHas(s.tables, table) THEN Ok(<<>>)
  ELSE LET tbl == s.tables[table]
       IN IF tbl.createView # Nil
          THEN LET sourceTable == baseTablesForViewDDL(SQL(Deref(tbl.createView)))
               IN IF sourceTable.status # "ok" THEN sourceTable
                  ELSE PrimaryKeyLoop(MapGet(s.tables, firstOrDefault(sourceTable.value)))
          ELSE PrimaryKeyLoop(tbl)

IndexColumnList(s, table, index) ==
  IF index = "PRIMARY_KEY" THEN primaryKeyColumnList(s, table)
  ELSE Ok(IndexColumnLoop(MapGet(s.tables, table).createIndexes, index, <<>>))

\* The orders a range over map m can visit its keys in.
RangeOrders(m) ==
  {o \in [1..Cardinality(DOMAIN m) -> DOMAIN m] : \A k \in DOMAIN m : \E i \in DOMAIN o : o[i] = k}

IndexNames == {"I", "J", "PRIMARY_KEY"}

Called(c, r) ==
  /\ call' = c
  /\ result' = r
  /\ UNCHANGED <<pc, n, ddl, tables, loader, err>>

CallTableList ==
  /\ pc = "built"
  /\ \E order \in RangeOrders(Deref(loader).tables) :
    Called([op |-> "TableList", table |-> "", index |-> ""], TableList(Deref(loader), order))

CallColumnList ==
  /\ pc = "built"
  /\ \E name \in TableNames :
    Called([op |-> "ColumnList", table |-> name, index |-> ""], ColumnList(Deref(loader), name))

CallIndexList ==
  /\ pc = "built"
  /\ \E name \in TableNames :
    Called([op |-> "IndexList", table |-> name, index |-> ""], IndexList(Deref(loader), name))

CallIndexColumnList ==
  /\ pc = "built"
  /\ \E name \in TableNames, index \in IndexNames :
    Called([op |-> "IndexColumnList", table |-> name, index |-> index],
           IndexColumnList(Deref(loader), name, index))

Next ==
  \/ ReadFileError
  \/ ParseDDLsError
  \/ ParseDDLsOk
  \/ LoopCreateTable
  \/ LoopCreateIndex
  \/ LoopAlterTable
  \/ LoopCreateView
  \/ LoopNoMatch
  \/ Return
  \/ CallTableList
  \/ CallColumnList
  \/ CallIndexList
  \/ CallIndexColumnList

Spec == Init /\ [][Next]_vars

(* ------------------------------------------------------- properties     *)

KnownKinds == {"CreateTable", "CreateIndex", "CreateView", "AlterTable"}

\* A step of the loop that consumes a statement of the given kind.
Consumes(kind) == pc = "loop" /\ n' = n + 1 /\ Deref(ddl').kind = kind

BuildFailedWith(e) == pc = "failed" /\ err = e /\ loader = Nil

\* The catalog the accessors read.
Catalog == Deref(loader).tables

HasTableDef(m, k) == MapHas(m, k) /\ m[k].createTable # Nil
HasViewDef(m, k) == MapHas(m, k) /\ m[k].createView # Nil

\* View k of m selects from the single table t.
ViewOf(m, k, t) ==
  /\ HasViewDef(m, k)
  /\ Deref(m[k].createView).Query.type = "Select"
  /\ Deref(m[k].createView).Query.source = "TableName"
  /\ Deref(m[k].createView).Query.tables = <<t>>

\* cols is the declared primary key of table t: in order, numbered from 1.
IsDeclaredPk(cols, m, t) ==
  LET pks == Deref(m[t].createTable).PrimaryKeys
  IN /\ Len(cols) = Len(pks)
     /\ \A i \in 1..Len(pks) :
          cols[i] = [SeqNo |-> i, Storing |-> FALSE, ColumnName |-> pks[i]]

IsPkCall == call.op = "IndexColumnList" /\ call.index = "PRIMARY_KEY"

\* C1 (as stated): a create-index on T consumed before any create-table T
\* (createTable is set by the create-table case only) fails the build with
\* the undefined-table error and no loader; one consumed after create-table T
\* is accepted and appended to T's index list.
C1_IndexBeforeTableFails ==
  [][Consumes("CreateIndex") =>
       LET val == Deref(ddl')
           T == val.TableName
       IN IF ~HasTableDef(tables, T)
          THEN BuildFailedWith(ErrUndefinedTable)'
          ELSE /\ pc' = "loop" /\ err' = ""
               /\ tables'[T].createIndexes = Append(tables[T].createIndexes, val)]_vars

\* C1 (amended): a create-index on T consumed while no aggregate is registered
\* under T (no create-table T and no create-view T so far) fails the build with
\* the undefined-table error and no loader; once an aggregate is registered
\* under T, every create-index on T is accepted and appended to T's index
\* list, the rest of the map unchanged.
C1_IndexNeedsAggregate ==
  [][Consumes("CreateIndex") =>
       LET val == Deref(ddl')
           T == val.TableName
       IN IF ~MapHas(tables, T)
          THEN BuildFailedWith(ErrUndefinedTable)' /\ tables' = tables
          ELSE /\ pc' = "loop" /\ err' = "" /\ loader' = Nil
               /\ DOMAIN tables' = DOMAIN tables
               /\ tables'[T].createIndexes = Append(tables[T].createIndexes, val)
               /\ tables'[T].createTable = tables[T].createTable
               /\ tables'[T].createView = tables[T].createView
               /\ \A k \in DOMAIN tables \ {T} : tables'[k] = tables[k]]_vars

C1_Witness ==
  /\ pc = "loop" /\ ddl # Nil
  /\ Deref(ddl).kind = "CreateIndex"
  /\ HasTableDef(tables, Deref(ddl).TableName)
  /\ Len(tables[Deref(ddl).TableName].createIndexes) = 2
  /\ tables[Deref(ddl).TableName].createIndexes[2] = Deref(ddl)

\* C2: consuming an alter-table that adds a constraint leaves the map as it
\* was and the build going; consuming any other alter-table ends the build
\* with the unsupported-statement error and no loader.
C2_AlterTable ==
  [][Consumes("AlterTable") =>
       IF Deref(ddl').TableAlteration = "AddTableConstraint"
       THEN tables' = tables /\ pc' = "loop" /\ err' = ""
       ELSE BuildFailedWith(ErrUnsupportedStmt)']_vars

C2_Witness ==
  /\ pc = "loop" /\ ddl # Nil
  /\ Deref(ddl).kind = "AlterTable"
  /\ Deref(ddl).TableAlteration = "AddTableConstraint"
  /\ \E k \in DOMAIN tables : HasTableDef(tables, k)

\* C3: consuming a statement whose kind is none of create-table, create-index,
\* create-view, alter-table ends the build with the unsupported-statement
\* error and no loader.
C3_UnknownKindFails ==
  [][(pc = "loop" /\ n' = n + 1 /\ Deref(ddl').kind \notin KnownKinds) =>
       BuildFailedWith(ErrUnsupportedStmt)']_vars

\* C4: TableList on a built catalog completes and returns exactly one
\* descriptor, with ManualPk true, per aggregate that has a table-definition,
\* and none for the others.
C4_TableListTablesOnly ==
  call.op = "TableList" =>
    LET withTable == {k \in DOMAIN Catalog : Catalog[k].createTable # Nil}
    IN /\ result.status = "ok"
       /\ Len(result.value) = Cardinality(withTable)
       /\ \A k \in withTable :
            \E i \in 1..Len(result.value) :
              result.value[i] = [TableName |-> k, ManualPk |-> TRUE]

\* C5: for an index name other than PRIMARY_KEY, IndexColumnList returns the
\* storing columns (SeqNo 0, Storing true) then the key columns (SeqNo 1..k,
\* Storing false) of the first index of that name in the table's list, and
\* nothing of later ones; with no such index it returns no columns, no error.
C5_FirstMatchStoringThenKeys ==
  (call.op = "IndexColumnList" /\ call.index # "PRIMARY_KEY") =>
    LET ixs == MapGet(Catalog, call.table).createIndexes
        matches == {i \in 1..Len(ixs) : ixs[i].Name = call.index}
    IN IF matches = {}
       THEN result.status = "ok" /\ result.err = "" /\ Len(result.value) = 0
       ELSE LET ix == ixs[CHOOSE i \in matches : \A j \in matches : i <= j]
                st == IF ix.Storing = Nil THEN <<>> ELSE Deref(ix.Storing).Columns
            IN /\ result.status = "ok" /\ result.err = ""
               /\ Len(result.value) = Len(st) + Len(ix.Keys)
               /\ \A j \in 1..Len(st) :
                    result.value[j] = [SeqNo |-> 0, Storing |-> TRUE, ColumnName |-> st[j]]
               /\ \A j \in 1..Len(ix.Keys) :
                    result.value[Len(st) + j] =
                      [SeqNo |-> j, Storing |-> FALSE, ColumnName |-> ix.Keys[j]]

C5_Witness ==
  /\ call.op = "IndexColumnList" /\ call.index = "I"
  /\ HasTableDef(Catalog, call.table)
  /\ Cardinality({i \in 1..Len(Catalog[call.table].createIndexes) :
                    Catalog[call.table].createIndexes[i].Name = "I"}) = 2
  /\ Catalog[call.table].createIndexes[1].Storing # Nil
  /\ Len(result.value) = 4

\* C6 (as stated): when N is a table T, or a view whose single source T is a
\* registered table, IndexColumnList(N, PRIMARY_KEY) returns T's declared
\* primary key, numbered from 1; and a view's result is what the same call
\* returns for its base table.  Stated of the calls that return; the calls
\* that end in a nil dereference are the subject of C10.
C6_PrimaryKeyOfTableOrView ==
  (IsPkCall /\ result.status # "panic") =>
    \A T \in TableNames :
      /\ (call.table = T /\ HasTableDef(Catalog, T)) =>
           (result.status = "ok" /\ IsDeclaredPk(result.value, Catalog, T))
      /\ (ViewOf(Catalog, call.table, T) /\ HasTableDef(Catalog, T)) =>
           /\ result.status = "ok" /\ IsDeclaredPk(result.value, Catalog, T)
           /\ result = IndexColumnList(Deref(loader), T, "PRIMARY_KEY")

\* C6 (amended): when N has a table-definition and no view-definition, the
\* call returns N's declared primary key; when N has a view-definition (with
\* or without a table-definition under the same name) whose single source T
\* has a table-definition, it returns T's declared primary key; columns are
\* numbered 1..n in declared order with Storing false; and the view's result
\* is what the call returns for T whenever T has no view-definition itself.
C6_ViewDefinitionTakesPrecedence ==
  IsPkCall =>
    \A T \in TableNames :
      /\ (call.table = T /\ HasTableDef(Catalog, T) /\ ~HasViewDef(Catalog, T)) =>
           (result.status = "ok" /\ result.err = "" /\ IsDeclaredPk(result.value, Catalog, T))
      /\ (ViewOf(Catalog, call.table, T) /\ HasTableDef(Catalog, T)) =>
           /\ result.status = "ok" /\ result.err = ""
           /\ IsDeclaredPk(result.value, Catalog, T)
           /\ ~HasViewDef(Catalog, T) =>
                result = IndexColumnList(Deref(loader), T, "PRIMARY_KEY")

C6_Witness ==
  /\ IsPkCall
  /\ \E T \in TableNames \ {call.table} :
       /\ ViewOf(Catalog, call.table, T)
       /\ ~HasTableDef(Catalog, call.table)
       /\ HasTableDef(Catalog, T)
       /\ Len(result.value) = 2

ViewSourceErrors == {ErrViewJoin, ErrUnknownSource}

\* View k of m is a Select whose FROM source is not a single table.
ViewOfOtherSource(m, k) ==
  /\ HasViewDef(m, k)
  /\ Deref(m[k].createView).Query.type = "Select"
  /\ Deref(m[k].createView).Query.source # "TableName"

C8_DeterministicOrder ==
  [][(call.op \in {"TableList", "IndexList"} /\ call' = call) => result' = result]_vars

\* C9: in a returned catalog every definition is filed under its own name,
\* so a name has one aggregate, and every aggregate has a table-definition or
\* a view-definition; a failed build returns no catalog.
C9_AggregateIsTableOrView ==
  /\ pc = "failed" => loader = Nil
  /\ loader # Nil =>
       \A k \in DOMAIN Catalog :
         LET a == Catalog[k]
         IN /\ a.createTable # Nil \/ a.createView # Nil
            /\ a.createTable # Nil => Deref(a.createTable).Name = k
            /\ a.createView # Nil => Deref(a.createView).Name = k
            /\ \A i \in 1..Len(a.createIndexes) : a.createIndexes[i].TableName = k

C9_Witness ==
  /\ pc = "built"
  /\ Cardinality(DOMAIN Catalog) = 2
  /\ \E k \in DOMAIN Catalog : Catalog[k].createTable = Nil
  /\ \E k \in DOMAIN Catalog : Len(Catalog[k].createIndexes) = 1

\* C10: IndexColumnList(N, PRIMARY_KEY) returns no columns and no error when
\* N is not registered, and when N is a view whose single source table has no
\* table-definition in the catalog.
C10_MissingIsEmpty ==
  (/\ IsPkCall
   /\ \/ ~MapHas(Catalog, call.table)
      \/ \E T \in TableNames : ViewOf(Catalog, call.table, T) /\ ~HasTableDef(Catalog, T))
  => (result.status = "ok" /\ result.err = "" /\ Len(result.value) = 0)

====
